---- MODULE Spec2Model ----
(***************************************************************************)
(* Backtest replay loop of the SMC trading bot: BacktestEngine             *)
(* (backtesting/backtest_engine.py) driving SMCAnalyzer                    *)
(* (core/smc_strategy.py) and EnhancedRiskManager                          *)
(* (core/enhanced_risk_manager.py).                                        *)
(*                                                                         *)
(* Number representation.  The program computes in binary floating point;  *)
(* the model computes in fixed point on integers:                          *)
(*   prices        integer pips (1 unit = 0.0001 of a price near 1.0000)   *)
(*   money         integer cents (MoneyScale units = $1)                   *)
(*   ratios        integer thousandths (RatioScale units = 1.0)            *)
(*   percentages   integer 1/10000 of a percent                            *)
(* A comparison against a decimal literal (x > y * 1.0007) is evaluated    *)
(* exactly by cross-multiplication; a product that is stored (x * 0.998)   *)
(* is truncated to the unit of its kind.                                   *)
(***************************************************************************)
EXTENDS Integers, Sequences, FiniteSets, TLC

\* ------------------------------------------------------------------------
\* Bounds of the exploration
\* ------------------------------------------------------------------------

\* bars replayed per symbol after the warm-up prefix
MaxBars == 2

\* calendar days the wall clock may advance during one run
MaxClock == 1

\* closed trades reported to a risk manager driven on its own
MaxOutcomes == 3

\* signals handed to the entry branch by an arbitrary analyzer
MaxOffers == 2

\* longest candle window handed to the FVG detector
MaxWindow == 5

\* UTC dates after the first on which a strategy is asked for signals
MaxDates == 1

\* ------------------------------------------------------------------------
\* Program constants
\* ------------------------------------------------------------------------

MoneyScale == 100

RatioScale == 1000

\* BacktestEngine.__init__ account_balance default, $10,000
InitialBalance == 10000 * MoneyScale

\* BacktestEngine.__init__ risk_per_trade default, in percent
RiskPerTrade == 1

\* backtest_symbol start_index default
StartIndex == 100

\* lookback window: candles[max(0, i-50) : i+1]
Lookback == 50

\* EnhancedRiskManager.__init__ max_trades_per_day default
MaxTradesPerDay == 2

\* EnhancedRiskManager.__init__ max_daily_loss default 1.5 %, in tenths of a percent
MaxDailyLoss10 == 15

\* EnhancedRiskManager.__init__ max_weekly_loss default 3.0 %, in tenths of a percent
MaxWeeklyLoss10 == 30

\* the engine's symbol list (constructor argument `symbols`): two of the
\* three default symbols
Symbols == <<"EURUSD", "GBPUSD">>

None == 0

\* FlexibleICTStrategy / ProfessionalStrategy can_take_trade: trades_today >= 2
MaxSignalsPerDay == 2

\* ------------------------------------------------------------------------
\* Arithmetic helpers
\* ------------------------------------------------------------------------

Abs(x) == IF x < 0 THEN -x ELSE x

Min2(a, b) == IF a < b THEN a ELSE b

Max2(a, b) == IF a > b THEN a ELSE b

\* x * (num/den) truncated toward zero, as a stored fixed-point product
Mul(x, num, den) == IF x >= 0 THEN (x * num) \div den ELSE -(((-x) * num) \div den)

\* numerator / denominator truncated toward zero
Quot(n, d) == IF n >= 0 THEN n \div d ELSE -((-n) \div d)

RECURSIVE SeqMax(_)
SeqMax(s) == IF Len(s) = 1 THEN s[1] ELSE Max2(s[1], SeqMax(Tail(s)))

RECURSIVE SeqMin(_)
SeqMin(s) == IF Len(s) = 1 THEN s[1] ELSE Min2(s[1], SeqMin(Tail(s)))

RECURSIVE SeqSum(_)
SeqSum(s) == IF Len(s) = 0 THEN 0 ELSE s[1] + SeqSum(Tail(s))

\* Python slice s[-n:] : the last n elements (all of s when it is shorter)
LastN(s, n) == IF Len(s) <= n THEN s ELSE SubSeq(s, Len(s) - n + 1, Len(s))

\* Python slice s[:-n] : all but the last n elements
DropLast(s, n) == IF Len(s) <= n THEN <<>> ELSE SubSeq(s, 1, Len(s) - n)

Highs(cs) == [k \in 1..Len(cs) |-> cs[k].high]

Lows(cs) == [k \in 1..Len(cs) |-> cs[k].low]

\* ------------------------------------------------------------------------
\* Candles: the input series
\* ------------------------------------------------------------------------

Candle(o, h, l, c) == [open |-> o, high |-> h, low |-> l, close |-> c]

\* quiet bar around 1.0000
Flat == Candle(10000, 10001, 9999, 10000)

\* break above the quiet bars, leaves a bullish gap over them
UpperBar == Candle(10060, 10090, 10050, 10085)

\* rally that stays above the gap
MoonBar == Candle(10085, 10300, 10080, 10295)

\* bar spanning far below and far above
WideBar == Candle(10085, 10300, 9975, 10290)

\* break below the quiet bars, leaves a bearish gap under them
LowerBar == Candle(9940, 9950, 9910, 9915)

\* break far above the quiet bars: gap wider than 5 % of price
HugeBar == Candle(10060, 10800, 10700, 10790)

\* the candles a replayed bar is drawn from (the quiet bar fills the warm-up)
BarShapes == {UpperBar, MoonBar, WideBar, LowerBar, HugeBar}

\* the candle at list position idx (0-based) carries timestamp idx
Stamp(c, idx) == [timestamp |-> idx, open |-> c.open, high |-> c.high,
                  low |-> c.low, close |-> c.close]

\* the first StartIndex candles of every series: never replayed, only looked back on
WarmupSeries == [k \in 1..StartIndex |-> Stamp(Flat, k - 1)]

\* ------------------------------------------------------------------------
\* SMCAnalyzer (core/smc_strategy.py)
\* ------------------------------------------------------------------------

NoBOS == [structure_type |-> "none", price |-> 0, strength |-> 0, timestamp |-> 0,
          higher_low |-> 0, lower_high |-> 0]

\* strength = min(excess / (level * 0.007), 1.0), in thousandths
BosStrength(excess, level) ==
    IF excess * 1000 >= level * 7 THEN RatioScale
    ELSE (excess * 1000 * RatioScale) \div (level * 7)

\* variant of detect_break_of_structure: the extremes are taken over all of the
\* last 15 bars, the most recent two included
detect_break_of_structure_all_bars(candles) ==
    IF Len(candles) < 10 THEN NoBOS
    ELSE
      LET recent == LastN(candles, 20)
          current_price == candles[Len(candles)].close
          structure_candles == LastN(recent, 15)
          max_high == SeqMax(Highs(structure_candles))
          min_low == SeqMin(Lows(structure_candles))
      IN  IF current_price * 10000 > max_high * 10007
          THEN [structure_type |-> "higher_high",
                price |-> current_price,
                strength |-> BosStrength(current_price - max_high, max_high),
                timestamp |-> candles[Len(candles)].timestamp,
                higher_low |-> SeqMin(Lows(LastN(recent, 5))),
                lower_high |-> 0]
          ELSE IF current_price * 10000 < min_low * 9993
          THEN [structure_type |-> "lower_low",
                price |-> current_price,
                strength |-> BosStrength(min_low - current_price, min_low),
                timestamp |-> candles[Len(candles)].timestamp,
                higher_low |-> 0,
                lower_high |-> SeqMax(Highs(LastN(recent, 5)))]
          ELSE NoBOS

detect_break_of_structure(candles) ==
    IF Len(candles) < 10 THEN NoBOS
    ELSE
      LET recent == LastN(candles, 20)
          current_price == candles[Len(candles)].close
          structure_candles == LastN(recent, 15)
          max_high == SeqMax(DropLast(Highs(structure_candles), 2))
          min_low == SeqMin(DropLast(Lows(structure_candles), 2))
      IN  IF current_price * 10000 > max_high * 10007
          THEN [structure_type |-> "higher_high",
                price |-> current_price,
                strength |-> BosStrength(current_price - max_high, max_high),
                timestamp |-> candles[Len(candles)].timestamp,
                higher_low |-> SeqMin(Lows(LastN(recent, 5))),
                lower_high |-> 0]
          ELSE IF current_price * 10000 < min_low * 9993
          THEN [structure_type |-> "lower_low",
                price |-> current_price,
                strength |-> BosStrength(min_low - current_price, min_low),
                timestamp |-> candles[Len(candles)].timestamp,
                higher_low |-> 0,
                lower_high |-> SeqMax(Highs(LastN(recent, 5)))]
          ELSE NoBOS

NoZone == [kind |-> "none", low |-> 0, high |-> 0]

\* the 3-candle test at 1-based position p (candles p, p+1, p+2)
FvgAt(candles, p) ==
    LET c0 == candles[p]
        c2 == candles[p + 2]
        current_price == candles[Len(candles)].close
    IN  IF c0.high < c2.low /\ (c2.low - c0.high) * 1000 >= current_price
        THEN [kind |-> "fvg", low |-> c0.high, high |-> c2.low]
        ELSE IF c2.high < c0.low /\ (c0.low - c2.high) * 1000 >= current_price
        THEN [kind |-> "fvg", low |-> c2.high, high |-> c0.low]
        ELSE NoZone

\* for i in range(len-3, max(len-5, 1), -1): 0-based i runs down from len-3
\* to max(len-5,1)+1; `from` is the 0-based index tried next
RECURSIVE FvgScan(_, _)
FvgScan(candles, from) ==
    IF from <= Max2(Len(candles) - 5, 1) THEN NoZone
    ELSE LET z == FvgAt(candles, from + 1)
         IN  IF z.kind # "none" THEN z ELSE FvgScan(candles, from - 1)

identify_fair_value_gap(candles) ==
    IF Len(candles) < 3 THEN NoZone ELSE FvgScan(candles, Len(candles) - 3)

\* the detector has not been called
NoGap == [window |-> <<>>, zone |-> NoZone]

identify_discount_zone(candles) ==
    IF Len(candles) < 25 THEN NoZone
    ELSE
      LET recent == LastN(candles, 25)
          current_price == candles[Len(candles)].close
          lookback == LastN(recent, 20)
          previous_low == SeqMin(DropLast(Lows(lookback), 5))
          previous_high == SeqMax(DropLast(Highs(lookback), 5))
          move_range == previous_high - previous_low
          \* retrace_start = previous_high - move_range * 0.25, times 4
          retrace_start4 == previous_high * 4 - move_range
          \* retrace_end = previous_high - move_range * 0.75, times 4
          retrace_end4 == previous_high * 4 - move_range * 3
      IN  IF retrace_end4 <= current_price * 4 /\ current_price * 4 <= retrace_start4
          THEN [kind |-> "discount_zone",
                low |-> Mul(retrace_end4, 995, 4000),
                high |-> Mul(retrace_start4, 1005, 4000)]
          ELSE NoZone

\* one iteration of the reversal scan at 0-based index i
ObAt(candles, i) ==
    IF i < 1 THEN NoZone
    ELSE
      LET prev == candles[i]
          curr == candles[i + 1]
          prev_range == prev.high - prev.low
          curr_range == curr.high - curr.low
      IN  IF /\ prev.close > prev.open
             /\ curr.close < curr.open
             /\ curr_range * 10 > prev_range * 6
             /\ curr.close * 1000 < prev.close * 998
          THEN [kind |-> "order_block", low |-> prev.open,
                high |-> Mul(curr.high, 1001, 1000)]
          ELSE IF /\ prev.close < prev.open
                  /\ curr.close > curr.open
                  /\ curr_range * 10 > prev_range * 6
                  /\ curr.close * 1000 > prev.close * 1002
          THEN [kind |-> "order_block", low |-> Mul(curr.low, 999, 1000),
                high |-> prev.open]
          ELSE NoZone

\* for i in range(len-8, len-2): first hit wins
RECURSIVE ObScan(_, _)
ObScan(candles, i) ==
    IF i >= Len(candles) - 2 THEN NoZone
    ELSE LET z == ObAt(candles, i)
         IN  IF z.kind # "none" THEN z ELSE ObScan(candles, i + 1)

identify_order_block(candles) ==
    IF Len(candles) < 8 THEN NoZone ELSE ObScan(candles, Len(candles) - 8)

NoPullback == [timestamp |-> 0, entry_price |-> 0, zone_high |-> 0, zone_low |-> 0,
               confidence |-> 0]

NoSignal == [valid |-> FALSE, timestamp |-> 0, entry_price |-> 0,
             entry_zone_type |-> "none", stop_loss |-> 0, target_price |-> 0,
             risk_reward_ratio |-> 0, bos |-> NoBOS, pullback_zone |-> NoPullback,
             strength |-> 0]

\* Step 3: FVG first, then order block, then discount zone
EntryZone(candles) ==
    LET fvg == identify_fair_value_gap(candles)
    IN  IF fvg.kind # "none" THEN fvg
        ELSE LET ob == identify_order_block(candles)
             IN  IF ob.kind # "none" THEN ob
                 ELSE identify_discount_zone(candles)

\* variant of SignalStop: the stop is put on the far side of the zone
SignalStopSwapped(structure_type, zone) ==
    IF structure_type = "higher_high"
    THEN Mul(zone.high, 1002, 1000)
    ELSE Mul(zone.low, 998, 1000)

\* Step 4: stop just outside the zone on the side the BOS direction names
SignalStop(structure_type, zone) ==
    IF structure_type = "higher_high"
    THEN Mul(zone.low, 998, 1000)
    ELSE Mul(zone.high, 1002, 1000)

\* Step 4: target at twice the stop distance
SignalTarget(structure_type, current_price, stop_loss) ==
    IF structure_type = "higher_high"
    THEN current_price + (current_price - stop_loss) * 2
    ELSE current_price - (stop_loss - current_price) * 2

\* variant of RRatio: the ratio of the whole move (risk + reward) to the risk
RRatioGross(risk, reward) ==
    IF risk > 0 THEN ((reward + risk) * RatioScale) \div risk ELSE 0

\* rr_ratio = reward / risk if risk > 0 else 0, in thousandths
RRatio(risk, reward) == IF risk > 0 THEN (reward * RatioScale) \div risk ELSE 0

generate_entry_signal(candles) ==
    IF Len(candles) < 20 THEN NoSignal
    ELSE
      LET bos == detect_break_of_structure(candles)
          last == candles[Len(candles)]
          current_price == last.close
          recent == LastN(candles, 5)
          high == SeqMax(Highs(recent))
          low == SeqMin(Lows(recent))
          pullback_size == high - low
          pullback == [timestamp |-> last.timestamp, entry_price |-> current_price,
                       zone_high |-> high, zone_low |-> low, confidence |-> 750]
          zone == EntryZone(candles)
          stop_loss == SignalStop(bos.structure_type, zone)
          target_price == SignalTarget(bos.structure_type, current_price, stop_loss)
          risk == Abs(current_price - stop_loss)
          reward == Abs(target_price - current_price)
          rr_ratio == RRatio(risk, reward)
          strength == Min2(Mul(bos.strength, 6, 10) + Mul(pullback.confidence, 4, 10),
                           RatioScale)
      IN  IF bos.structure_type = "none" THEN NoSignal
          ELSE IF pullback_size * 10000 < current_price * 2 THEN NoSignal
          ELSE IF zone.kind = "none" THEN NoSignal
          ELSE IF rr_ratio * 10 < 15 * RatioScale THEN NoSignal
          ELSE IF strength * 100 < 65 * RatioScale THEN NoSignal
          ELSE [valid |-> TRUE, timestamp |-> last.timestamp,
                entry_price |-> current_price, entry_zone_type |-> zone.kind,
                stop_loss |-> stop_loss, target_price |-> target_price,
                risk_reward_ratio |-> rr_ratio, bos |-> bos,
                pullback_zone |-> pullback, strength |-> strength]

analyze(candles) == generate_entry_signal(candles)

\* no window put to the analyzer yet
NoProbe == [called |-> FALSE, window |-> <<>>, bos |-> NoBOS, signal |-> NoSignal]

\* ------------------------------------------------------------------------
\* EnhancedRiskManager (core/enhanced_risk_manager.py)
\* ------------------------------------------------------------------------

\* ISO week number of a day ordinal (day 0 is a Monday, 52-week years)
IsoWeek(day) == ((day \div 7) % 52) + 1

\* risk per trade in currency: balance * risk_per_trade / 100
RiskAmount(balance, risk_per_trade) == Mul(balance, risk_per_trade, 100)

NewRiskManager(account_balance, risk_per_trade, today) ==
    [account_balance |-> account_balance,
     risk_per_trade |-> risk_per_trade,
     risk_amount |-> RiskAmount(account_balance, risk_per_trade),
     daily_pnl |-> 0,
     daily_trades_count |-> 0,
     daily_reset_time |-> today,
     weekly_pnl |-> 0,
     weekly_reset_time |-> today]

reset_daily_limits(rm, today) ==
    IF today > rm.daily_reset_time
    THEN [rm EXCEPT !.daily_pnl = 0, !.daily_trades_count = 0, !.daily_reset_time = today]
    ELSE rm

reset_weekly_limits(rm, today) ==
    IF IsoWeek(today) > IsoWeek(rm.weekly_reset_time)
    THEN [rm EXCEPT !.weekly_pnl = 0, !.weekly_reset_time = today]
    ELSE rm

\* abs(daily_pnl) < account_balance * max_daily_loss / 100
daily_limit_ok(rm) == Abs(rm.daily_pnl) * 1000 < rm.account_balance * MaxDailyLoss10

\* abs(weekly_pnl) < account_balance * max_weekly_loss / 100
weekly_limit_ok(rm) == Abs(rm.weekly_pnl) * 1000 < rm.account_balance * MaxWeeklyLoss10

daily_trades_ok(rm) == rm.daily_trades_count < MaxTradesPerDay

\* variant of calculate_position_size: nothing is sized once the day's trade
\* count is used up
calculate_position_size_capped(rm, entry_price, stop_loss) ==
    IF Abs(entry_price - stop_loss) = 0 THEN 0
    ELSE IF rm.daily_trades_count >= MaxTradesPerDay THEN 0
    ELSE rm.risk_amount

calculate_position_size(rm, entry_price, stop_loss) ==
    IF Abs(entry_price - stop_loss) = 0 THEN 0 ELSE rm.risk_amount

validate_trade(entry_price, stop_loss, target_price) ==
    LET risk == Abs(entry_price - stop_loss)
        reward == Abs(target_price - entry_price)
    IN  [rr_ratio_ok |-> risk > 0 /\ reward * 10 >= risk * 15,
         risk_reasonable |-> risk * 100 <= entry_price * 5,
         stop_loss_set |-> stop_loss # 0,
         target_set |-> target_price # 0]

AllChecks(v) == \A k \in DOMAIN v : v[k]

\* variant of record_trade_outcome: risk_amount keeps its value
record_trade_outcome_stale(rm, pnl, today) ==
    LET r == reset_weekly_limits(reset_daily_limits(rm, today), today)
    IN  [r EXCEPT !.daily_pnl = r.daily_pnl + pnl,
                  !.weekly_pnl = r.weekly_pnl + pnl,
                  !.daily_trades_count = r.daily_trades_count + 1,
                  !.account_balance = r.account_balance + pnl]

record_trade_outcome(rm, pnl, today) ==
    LET r == reset_weekly_limits(reset_daily_limits(rm, today), today)
    IN  [r EXCEPT !.daily_pnl = r.daily_pnl + pnl,
                  !.weekly_pnl = r.weekly_pnl + pnl,
                  !.daily_trades_count = r.daily_trades_count + 1,
                  !.account_balance = r.account_balance + pnl,
                  !.risk_amount = RiskAmount(r.account_balance + pnl, r.risk_per_trade)]

\* no can_open_trade call is in progress
NoChecks == [session_active |-> FALSE, daily_limit_ok |-> FALSE,
             weekly_limit_ok |-> FALSE, daily_trades_ok |-> FALSE, called |-> FALSE]

\* can_open_trade: the manager after the two resets and the checks computed
\* from it; session_active is what is_session_active() finds at the hour of call
can_open_trade(rm, today, session_active) ==
    LET r == reset_weekly_limits(reset_daily_limits(rm, today), today)
    IN  [rm |-> r,
         checks |-> [session_active |-> session_active,
                     daily_limit_ok |-> daily_limit_ok(r),
                     weekly_limit_ok |-> weekly_limit_ok(r),
                     daily_trades_ok |-> daily_trades_ok(r),
                     called |-> TRUE]]

\* ------------------------------------------------------------------------
\* FlexibleICTStrategy (core/flexible_ict_strategy.py) and ProfessionalStrategy
\* (core/professional_strategy.py): the daily cap around the setup detection.
\* Timestamps are hours since a UTC midnight.
\* ------------------------------------------------------------------------

\* self.current_date = None
NoDate == -1

\* datetime.fromtimestamp(timestamp, tz=timezone.utc).date()
UtcDate(timestamp) == timestamp \div 24

\* datetime.fromtimestamp(timestamp, tz=timezone.utc).hour
UtcHour(timestamp) == timestamp % 24

\* __init__
NewStrategy == [current_date |-> NoDate, trades_today |-> 0, daily_target_hit |-> FALSE]

\* AdvancedFilters.can_trade_now: `quiet` says that the timestamp is outside
\* the news windows, not a Sunday and not a Friday evening
can_trade_now(timestamp, quiet) ==
    quiet /\ 8 <= UtcHour(timestamp) /\ UtcHour(timestamp) < 22

\* datetime.weekday() of the timestamp, Monday = 0: hour 0 is a Monday, 00:00 UTC
Weekday(timestamp) == UtcDate(timestamp) % 7

\* self.high_impact_news, `time` and `duration` in half hours
NewsTable ==
    { [name |-> "NFP", time |-> 26, duration |-> 4],
      [name |-> "FOMC", time |-> 36, duration |-> 6],
      [name |-> "CPI", time |-> 26, duration |-> 4],
      [name |-> "PPI", time |-> 26, duration |-> 3],
      [name |-> "GDP", time |-> 26, duration |-> 2],
      [name |-> "Interest_Rate", time |-> 24, duration |-> 4] }

\* AdvancedFilters.is_news_time at a full hour: inside a window that opens half
\* an hour before an event and closes half an hour after its duration. The
\* additional first-Friday test covers 12:30 to 14:30, which the CPI window
\* contains on every day.
is_news_time(timestamp) ==
    LET current_time == 2 * UtcHour(timestamp)
    IN  \E news \in NewsTable :
            /\ news.time - 1 <= current_time
            /\ current_time <= news.time + news.duration + 1

\* the tests of AdvancedFilters.can_trade_now ahead of the session test: no
\* news, `dt.weekday() == 6` refused, `dt.weekday() == 4 and dt.hour >= 20` refused
quiet_at(timestamp) ==
    /\ ~is_news_time(timestamp)
    /\ Weekday(timestamp) # 6
    /\ ~(Weekday(timestamp) = 4 /\ UtcHour(timestamp) >= 20)

\* no timestamp put to the filter yet
NoAsk == [called |-> FALSE, timestamp |-> 0, can_trade |-> FALSE]

\* EnhancedSMCStrategy.__init__; `answers` lists what the generate_signal calls
\* on the instance returned, TRUE for a signal
NewEnhanced == [trades_today |-> 0, target_reached |-> FALSE,
                max_trades_per_day |-> 2, answers |-> <<>>]

\* EnhancedSMCStrategy.generate_signal: `setup` says that the conditions after
\* the daily test all pass on the candles handed in (trend, order block,
\* Fibonacci confluence, break of structure, sweeps, stop distance)
enhanced_generate_signal(st, setup) ==
    IF st.trades_today >= st.max_trades_per_day \/ st.target_reached
    THEN [strategy |-> st, signal |-> FALSE]
    ELSE [strategy |-> st, signal |-> setup]

\* variant of can_take_trade: the cap is tested with > instead of >=
can_take_trade_above_cap(st, timestamp, quiet) ==
    LET current_date == UtcDate(timestamp)
        s == IF st.current_date # current_date
             THEN [st EXCEPT !.current_date = current_date,
                             !.trades_today = 0,
                             !.daily_target_hit = FALSE]
             ELSE st
    IN  [strategy |-> s,
         ok |-> IF s.daily_target_hit \/ s.trades_today > MaxSignalsPerDay THEN FALSE
                ELSE can_trade_now(timestamp, quiet)]

\* can_take_trade: the instance after the date test and the answer
can_take_trade(st, timestamp, quiet) ==
    LET current_date == UtcDate(timestamp)
        s == IF st.current_date # current_date
             THEN [st EXCEPT !.current_date = current_date,
                             !.trades_today = 0,
                             !.daily_target_hit = FALSE]
             ELSE st
    IN  [strategy |-> s,
         ok |-> IF s.daily_target_hit \/ s.trades_today >= MaxSignalsPerDay THEN FALSE
                ELSE can_trade_now(timestamp, quiet)]

\* analyze: `setup` says that the detection pipeline behind the two gates finds
\* a setup that passes its confirmation, stop and RR tests on this window
strategy_analyze(st, timestamp, window_len, setup, quiet) ==
    IF window_len < 100 THEN [strategy |-> st, signal |-> FALSE]
    ELSE LET gate == can_take_trade(st, timestamp, quiet)
         IN  IF ~gate.ok THEN [strategy |-> gate.strategy, signal |-> FALSE]
             ELSE IF ~setup THEN [strategy |-> gate.strategy, signal |-> FALSE]
             ELSE [strategy |-> [gate.strategy EXCEPT
                                   !.trades_today = gate.strategy.trades_today + 1],
                   signal |-> TRUE]

\* analyze has not been called
NoCalls == [timestamp |-> 0, window_len |-> 0, setup |-> FALSE, quiet |-> FALSE,
            signal |-> FALSE, signals |-> <<>>]

\* ------------------------------------------------------------------------
\* BacktestEngine (backtesting/backtest_engine.py)
\* ------------------------------------------------------------------------

VARIABLES
    now,              \* wall clock (datetime.now()), as a day ordinal
    risk_manager,     \* self.risk_manager: the EnhancedRiskManager fields
    current_balance,  \* self.current_balance
    store,            \* the trade dicts created so far, in creation order
    active_trade,     \* self.active_trade: position in store, or None
    trades,           \* self.trades: positions in store, in closing order
    journal,          \* rows of the journal's trades table
    recorded,         \* the arguments of the record_trade_outcome calls so far
    sym_idx,          \* backtest(): position in self.symbols of the loop
    pc,               \* control point of backtest() / backtest_symbol()
    candles,          \* backtest_symbol(): candles[0..i] of the series replayed
    i,                \* backtest_symbol(): loop index
    executed_trades,  \* backtest_symbol(): positions in store
    all_trades,       \* backtest(): positions in store
    result,           \* the BacktestResult returned
    checks,           \* what the can_open_trade call in progress returned
    offer,            \* the last signal handed to the entry branch and its outcome
    gap,              \* the last window handed to the FVG detector and its answer
    strategy,         \* a FlexibleICTStrategy / ProfessionalStrategy instance
    analysed,         \* the last analyze call on it and the timestamps it answered
    twin,             \* a second BacktestEngine replaying the same series
    asked,            \* the last timestamp put to AdvancedFilters.can_trade_now and its answer
    probe,            \* the last window put to the SMCAnalyzer and what it answered
    enhanced,         \* an EnhancedSMCStrategy instance and what its calls answered
    live              \* a ForexTradingBot with its TradeExecutor and risk manager

vars == <<now, risk_manager, current_balance, store, active_trade, trades, journal,
          recorded, sym_idx, pc, candles, i, executed_trades, all_trades, result,
          checks, offer, gap, strategy, analysed, twin, asked, probe, enhanced, live>>

\* state of the callers that use the risk manager, the engine's entry branch,
\* the analyzer and the strategies on their own; the backtest leaves it alone
other_vars == <<checks, offer, gap, strategy, analysed, twin, asked, probe, enhanced, live>>

\* the day the engine is constructed on: start of a week, end of a week (the next
\* midnight starts a new ISO week), end of a year (the week number wraps)
StartDays == {0, 6, 363}

NoTrade == [id |-> <<"", 0>>, symbol |-> "", index |-> 0, entry_time |-> 0,
            entry_price |-> 0, stop_loss |-> 0, take_profit |-> 0, quantity |-> 0,
            risk_reward_ratio |-> 0, entry_zone_type |-> "none", bos_strength |-> 0,
            pullback_confidence |-> 0, signal_strength |-> 0, risk_amount |-> 0,
            reward_amount |-> 0, status |-> "none", account_balance_at_entry |-> 0,
            exit_price |-> 0, exit_reason |-> "none", pnl |-> 0, pnl_percent |-> 0]

\* variant of open_trade: neither early return is taken
open_trade_unguarded(rm, balance, symbol, signal, candle, index) ==
    LET position_size == calculate_position_size(rm, signal.entry_price,
                                                 signal.stop_loss)
        risk == Abs(signal.entry_price - signal.stop_loss)
        reward == Abs(signal.target_price - signal.entry_price)
    IN  [id |-> <<symbol, index>>,
         symbol |-> symbol,
         index |-> index,
         entry_time |-> candle.timestamp,
         entry_price |-> signal.entry_price,
         stop_loss |-> signal.stop_loss,
         take_profit |-> signal.target_price,
         quantity |-> position_size,
         risk_reward_ratio |-> signal.risk_reward_ratio,
         entry_zone_type |-> signal.entry_zone_type,
         bos_strength |-> signal.bos.strength,
         pullback_confidence |-> signal.pullback_zone.confidence,
         signal_strength |-> signal.strength,
         risk_amount |-> risk * position_size,
         reward_amount |-> reward * position_size,
         status |-> "open",
         account_balance_at_entry |-> balance,
         exit_price |-> 0, exit_reason |-> "none", pnl |-> 0, pnl_percent |-> 0]

\* variant of open_trade: validate_trade is not consulted
open_trade_unvalidated(rm, balance, symbol, signal, candle, index) ==
    LET position_size == calculate_position_size(rm, signal.entry_price,
                                                 signal.stop_loss)
        risk == Abs(signal.entry_price - signal.stop_loss)
        reward == Abs(signal.target_price - signal.entry_price)
    IN  IF position_size <= 0 THEN NoTrade
        ELSE [id |-> <<symbol, index>>,
              symbol |-> symbol,
              index |-> index,
              entry_time |-> candle.timestamp,
              entry_price |-> signal.entry_price,
              stop_loss |-> signal.stop_loss,
              take_profit |-> signal.target_price,
              quantity |-> position_size,
              risk_reward_ratio |-> signal.risk_reward_ratio,
              entry_zone_type |-> signal.entry_zone_type,
              bos_strength |-> signal.bos.strength,
              pullback_confidence |-> signal.pullback_zone.confidence,
              signal_strength |-> signal.strength,
              risk_amount |-> risk * position_size,
              reward_amount |-> reward * position_size,
              status |-> "open",
              account_balance_at_entry |-> balance,
              exit_price |-> 0, exit_reason |-> "none", pnl |-> 0, pnl_percent |-> 0]

\* _open_trade: the trade dict, or NoTrade where the code returns None
open_trade(rm, balance, symbol, signal, candle, index) ==
    LET validation == validate_trade(signal.entry_price, signal.stop_loss,
                                     signal.target_price)
        position_size == calculate_position_size(rm, signal.entry_price,
                                                 signal.stop_loss)
        risk == Abs(signal.entry_price - signal.stop_loss)
        reward == Abs(signal.target_price - signal.entry_price)
    IN  IF ~AllChecks(validation) THEN NoTrade
        ELSE IF position_size <= 0 THEN NoTrade
        ELSE [id |-> <<symbol, index>>,
              symbol |-> symbol,
              index |-> index,
              entry_time |-> candle.timestamp,
              entry_price |-> signal.entry_price,
              stop_loss |-> signal.stop_loss,
              take_profit |-> signal.target_price,
              quantity |-> position_size,
              risk_reward_ratio |-> signal.risk_reward_ratio,
              entry_zone_type |-> signal.entry_zone_type,
              bos_strength |-> signal.bos.strength,
              pullback_confidence |-> signal.pullback_zone.confidence,
              signal_strength |-> signal.strength,
              risk_amount |-> risk * position_size,
              reward_amount |-> reward * position_size,
              status |-> "open",
              account_balance_at_entry |-> balance,
              exit_price |-> 0, exit_reason |-> "none", pnl |-> 0, pnl_percent |-> 0]

\* no signal has been handed to the entry branch yet
NoOffer == [n |-> 0, signal |-> NoSignal, trade |-> NoTrade]

\* variant of check_trade_exit: the take-profit branch is tested first
check_trade_exit_target_first(trade, current_candle) ==
    IF current_candle.high >= trade.take_profit THEN "take_profit"
    ELSE IF current_candle.low <= trade.stop_loss THEN "stop_loss"
    ELSE "none"

\* _check_trade_exit: which branch closes the trade on this candle, if any
check_trade_exit(trade, current_candle) ==
    IF current_candle.low <= trade.stop_loss THEN "stop_loss"
    ELSE IF current_candle.high >= trade.take_profit THEN "take_profit"
    ELSE "none"

\* the exit_price argument _check_trade_exit passes for a branch
ExitPrice(trade, exit_reason) ==
    IF exit_reason = "stop_loss" THEN trade.stop_loss ELSE trade.take_profit

\* variant of ClosePnl: the loss is the risk amount of the initial balance
ClosePnlInitialRisk(trade, exit_reason) ==
    IF exit_reason = "stop_loss" THEN -RiskAmount(InitialBalance, RiskPerTrade)
    ELSE IF exit_reason = "take_profit"
    THEN Mul(trade.quantity, trade.risk_reward_ratio - RatioScale, RatioScale)
    ELSE 0

\* variant of ClosePnl: the win is the full RR multiple of the risk
ClosePnlFullMultiple(trade, exit_reason) ==
    IF exit_reason = "stop_loss" THEN -trade.quantity
    ELSE IF exit_reason = "take_profit"
    THEN Mul(trade.quantity, trade.risk_reward_ratio, RatioScale)
    ELSE 0

\* _close_trade: the P&L of the exit
ClosePnl(trade, exit_reason) ==
    LET risk_dollars == trade.quantity
    IN  IF exit_reason = "stop_loss" THEN -risk_dollars
        ELSE IF exit_reason = "take_profit"
        THEN Mul(risk_dollars, trade.risk_reward_ratio - RatioScale, RatioScale)
        ELSE 0

\* _close_trade: the trade dict after the update
close_trade(trade, exit_price, exit_reason) ==
    LET pnl == ClosePnl(trade, exit_reason)
    IN  [trade EXCEPT !.exit_price = exit_price,
                      !.exit_reason = exit_reason,
                      !.pnl = pnl,
                      !.pnl_percent = IF InitialBalance # 0
                                      THEN Quot(pnl * 10000, InitialBalance \div 100)
                                      ELSE 0,
                      !.status = "closed"]

\* variant of OutcomeCalls: the exit is reported to the risk manager twice
OutcomeCallsTwice(pnl) == <<pnl, pnl>>

\* variant of OutcomeCalls: the exit is not reported to the risk manager
OutcomeCallsNone(pnl) == <<>>

\* _close_trade line 211: the record_trade_outcome calls made for one exit
OutcomeCalls(pnl) == <<pnl>>

\* the risk manager after a list of record_trade_outcome calls
RECURSIVE ApplyOutcomes(_, _, _)
ApplyOutcomes(rm, pnls, today) ==
    IF Len(pnls) = 0 THEN rm
    ELSE ApplyOutcomes(record_trade_outcome(rm, pnls[1], today), Tail(pnls), today)

\* TradeJournal.log_trade: INSERT OR REPLACE keyed by id
log_trade(rows, trade) ==
    IF \E k \in 1..Len(rows) : rows[k].id = trade.id
    THEN [k \in 1..Len(rows) |-> IF rows[k].id = trade.id THEN trade ELSE rows[k]]
    ELSE Append(rows, trade)

\* variant of SlotEmpty: the entry branch runs whatever the slot holds
SlotEmptyAlways(slot) == TRUE

\* backtest_symbol line 84: the entry branch runs only with the slot empty
SlotEmpty(slot) == slot = None

\* the lookback window candles[max(0, i-50) : i+1]
Window(cs, idx) == SubSeq(cs, Max2(0, idx - Lookback) + 1, idx + 1)

\* the trade dicts a list of store positions refers to
Deref(st, refs) == [k \in 1..Len(refs) |-> st[refs[k]]]

Pnls(ts) == [k \in 1..Len(ts) |-> ts[k].pnl]

\* variant of calculate_statistics: total_trades counts every trade handed in
calculate_statistics_all(ts, balance) ==
    LET IsClosed(t) == t.status = "closed"
        IsWinner(t) == t.pnl > 0
        IsLoser(t) == t.pnl < 0
        closed_trades == SelectSeq(ts, IsClosed)
        winners == SelectSeq(closed_trades, IsWinner)
        losers == SelectSeq(closed_trades, IsLoser)
        total_wins == SeqSum(Pnls(winners))
        total_losses == SeqSum(Pnls(losers))
    IN  IF Len(ts) = 0
        THEN [total_trades |-> 0, winning_trades |-> 0, losing_trades |-> 0,
              win_rate |-> 0, avg_win |-> 0, avg_loss |-> 0, profit_factor |-> 0,
              total_pnl |-> 0, final_balance |-> balance]
        ELSE [total_trades |-> Len(ts),
              winning_trades |-> Len(winners),
              losing_trades |-> Len(losers),
              win_rate |-> IF Len(closed_trades) > 0
                           THEN Quot(Len(winners) * 100 * 10000, Len(closed_trades))
                           ELSE 0,
              avg_win |-> IF Len(winners) > 0 THEN Quot(total_wins, Len(winners)) ELSE 0,
              avg_loss |-> IF Len(losers) > 0 THEN Quot(total_losses, Len(losers)) ELSE 0,
              profit_factor |-> IF total_losses # 0
                                THEN Quot(total_wins * RatioScale, Abs(total_losses))
                                ELSE 0,
              total_pnl |-> total_wins + total_losses,
              final_balance |-> balance]

\* _calculate_statistics
calculate_statistics(ts, balance) ==
    LET IsClosed(t) == t.status = "closed"
        IsWinner(t) == t.pnl > 0
        IsLoser(t) == t.pnl < 0
        closed_trades == SelectSeq(ts, IsClosed)
        winners == SelectSeq(closed_trades, IsWinner)
        losers == SelectSeq(closed_trades, IsLoser)
        total_wins == SeqSum(Pnls(winners))
        total_losses == SeqSum(Pnls(losers))
    IN  IF Len(ts) = 0
        THEN [total_trades |-> 0, winning_trades |-> 0, losing_trades |-> 0,
              win_rate |-> 0, avg_win |-> 0, avg_loss |-> 0, profit_factor |-> 0,
              total_pnl |-> 0, final_balance |-> balance]
        ELSE [total_trades |-> Len(closed_trades),
              winning_trades |-> Len(winners),
              losing_trades |-> Len(losers),
              win_rate |-> IF Len(closed_trades) > 0
                           THEN Quot(Len(winners) * 100 * 10000, Len(closed_trades))
                           ELSE 0,
              avg_win |-> IF Len(winners) > 0 THEN Quot(total_wins, Len(winners)) ELSE 0,
              avg_loss |-> IF Len(losers) > 0 THEN Quot(total_losses, Len(losers)) ELSE 0,
              profit_factor |-> IF total_losses # 0
                                THEN Quot(total_wins * RatioScale, Abs(total_losses))
                                ELSE 0,
              total_pnl |-> total_wins + total_losses,
              final_balance |-> balance]

\* insert t behind every element whose entry_time is not larger (stable)
RECURSIVE InsertByEntryTime(_, _)
InsertByEntryTime(sorted, t) ==
    IF Len(sorted) = 0 THEN <<t>>
    ELSE IF sorted[1].entry_time <= t.entry_time
    THEN <<sorted[1]>> \o InsertByEntryTime(Tail(sorted), t)
    ELSE <<t>> \o sorted

\* sorted(self.trades, key=lambda t: t.get('entry_time', 0))
RECURSIVE SortedByEntryTime(_)
SortedByEntryTime(ts) ==
    IF Len(ts) = 0 THEN <<>>
    ELSE InsertByEntryTime(SortedByEntryTime(DropLast(ts, 1)), ts[Len(ts)])

\* the loop of _calculate_equity_curve over an ordered trade list
RECURSIVE EquityFrom(_, _)
EquityFrom(balance, ts) ==
    IF Len(ts) = 0 THEN <<>>
    ELSE IF ts[1].status = "closed"
    THEN <<balance + ts[1].pnl>> \o EquityFrom(balance + ts[1].pnl, Tail(ts))
    ELSE EquityFrom(balance, Tail(ts))

\* variant of EquityOrder: self.trades is walked in closing order
EquityOrderClosing(ts) == ts

\* the order in which _calculate_equity_curve walks self.trades
EquityOrder(ts) == SortedByEntryTime(ts)

\* variant of calculate_equity_curve: the curve holds the balances after the
\* trades only
calculate_equity_curve_no_start(ts) ==
    EquityFrom(InitialBalance, EquityOrder(ts))

\* _calculate_equity_curve
calculate_equity_curve(ts) ==
    <<InitialBalance>> \o EquityFrom(InitialBalance, EquityOrder(ts))

\* the loop of _calculate_drawdown, in 1/10000 percent
\* variant of DrawdownFrom: the peak stays at the first equity point
DrawdownFixedPeak(peak, equity) ==
    [k \in 1..Len(equity) |->
        IF peak > 0 THEN Quot((peak - equity[k]) * 10000, peak \div 100) ELSE 0]

RECURSIVE DrawdownFrom(_, _)
DrawdownFrom(peak, equity) ==
    IF Len(equity) = 0 THEN <<>>
    ELSE LET e == equity[1]
             pk == IF e > peak THEN e ELSE peak
             dd == IF pk > 0 THEN Quot((pk - e) * 10000, pk \div 100) ELSE 0
         IN  <<dd>> \o DrawdownFrom(pk, Tail(equity))

\* _calculate_drawdown
calculate_drawdown(ts) ==
    LET equity == calculate_equity_curve(ts)
    IN  DrawdownFrom(equity[1], equity)

NoResult == [trades |-> <<>>,
             statistics |-> calculate_statistics(<<>>, 0),
             equity_curve |-> <<>>,
             drawdown_curve |-> <<>>]

\* ------------------------------------------------------------------------
\* State machine
\* ------------------------------------------------------------------------

\* BacktestEngine.__init__ for an engine kept in one record
NewEngine(today) ==
    [now |-> today,
     risk_manager |-> NewRiskManager(InitialBalance, RiskPerTrade, today),
     current_balance |-> InitialBalance,
     store |-> <<>>,
     active_trade |-> None,
     trades |-> <<>>,
     sym_idx |-> 1,
     pc |-> "symbol",
     i |-> 0,
     executed_trades |-> <<>>,
     all_trades |-> <<>>,
     result |-> NoResult]

\* ForexTradingBot.__init__ with TradeExecutor.__init__; `cursor` is the
\* position of scan_and_trade in self.symbols, one past the end when
\* check_active_trades comes next
NewLive(today) ==
    [rm |-> NewRiskManager(InitialBalance, RiskPerTrade, today),
     active_trades |-> <<>>,
     closed_trades |-> <<>>,
     order_counter |-> 0,
     cursor |-> 1]

\* BacktestEngine.__init__
Init ==
    /\ now \in StartDays
    /\ risk_manager = NewRiskManager(InitialBalance, RiskPerTrade, now)
    /\ current_balance = InitialBalance
    /\ store = <<>>
    /\ active_trade = None
    /\ trades = <<>>
    /\ journal = <<>>
    /\ recorded = <<>>
    /\ sym_idx = 1
    /\ pc = "symbol"
    /\ candles = <<>>
    /\ i = 0
    /\ executed_trades = <<>>
    /\ all_trades = <<>>
    /\ result = NoResult
    /\ checks = NoChecks
    /\ offer = NoOffer
    /\ gap = NoGap
    /\ strategy = NewStrategy
    /\ analysed = NoCalls
    /\ twin = NewEngine(now)
    /\ asked = NoAsk
    /\ probe = NoProbe
    /\ enhanced = NewEnhanced
    /\ live = NewLive(now)

\* the wall clock passes midnight while the backtest runs; the engine reads the
\* clock only inside record_trade_outcome, i.e. in the exit half of a bar, so
\* midnight is placed between two bars
ClockTick ==
    /\ pc = "bar"
    /\ \E d \in StartDays : d <= now /\ now < d + MaxClock
    /\ now' = now + 1
    /\ UNCHANGED <<risk_manager, current_balance, store, active_trade, trades, journal,
                   recorded, sym_idx, pc, candles, i, executed_trades, all_trades,
                   result>>
    /\ UNCHANGED other_vars

\* backtest(): `if symbol not in historical_data: continue`
SkipSymbol ==
    /\ pc = "symbol"
    /\ sym_idx <= Len(Symbols)
    /\ sym_idx' = sym_idx + 1
    /\ UNCHANGED <<now, risk_manager, current_balance, store, active_trade, trades,
                   journal, recorded, pc, candles, i, executed_trades, all_trades,
                   result>>
    /\ UNCHANGED other_vars

\* backtest() calls backtest_symbol(symbol, candles): locals initialised, the
\* loop starts at start_index behind the warm-up candles
StartSymbol ==
    /\ pc = "symbol"
    /\ sym_idx <= Len(Symbols)
    /\ candles' = WarmupSeries
    /\ i' = StartIndex
    /\ executed_trades' = <<>>
    /\ pc' = "bar"
    /\ UNCHANGED <<now, risk_manager, current_balance, store, active_trade, trades,
                   journal, recorded, sym_idx, all_trades, result>>
    /\ UNCHANGED other_vars

\* loop body, first half: candles[i] is read and the open trade is checked
\* against it (_check_trade_exit, _close_trade)
BarExit(shape) ==
    /\ pc = "bar"
    /\ i - StartIndex < MaxBars
    /\ candles' = Append(candles, Stamp(shape, i))
    /\ pc' = "entry"
    /\ LET current_candle == Stamp(shape, i)
           reason == IF active_trade # None
                     THEN check_trade_exit(store[active_trade], current_candle)
                     ELSE "none"
       IN  IF reason # "none"
           THEN LET closed == close_trade(store[active_trade],
                                          ExitPrice(store[active_trade], reason),
                                          reason)
                IN  /\ store' = [store EXCEPT ![active_trade] = closed]
                    /\ current_balance' = current_balance + closed.pnl
                    /\ risk_manager' = ApplyOutcomes(risk_manager, OutcomeCalls(closed.pnl), now)
                    /\ recorded' = recorded \o OutcomeCalls(closed.pnl)
                    /\ journal' = log_trade(journal, closed)
                    /\ trades' = Append(trades, active_trade)
                    /\ active_trade' = None
           ELSE UNCHANGED <<store, current_balance, risk_manager, recorded, journal,
                            trades, active_trade>>
    /\ UNCHANGED <<now, sym_idx, i, executed_trades, all_trades, result>>
    /\ UNCHANGED other_vars

\* the signal the entry branch of the loop body acts on for candles[0..i]
EntrySignal(cs, idx) == analyze(Window(cs, idx))

\* loop body, second half: with the slot empty, analyse the window and open
EntryTrade(rm, balance, slot, symbol, cs, idx) ==
    LET signal == EntrySignal(cs, idx)
    IN  IF SlotEmpty(slot) /\ signal.valid
           /\ signal.risk_reward_ratio * 10 >= 15 * RatioScale
        THEN open_trade(rm, balance, symbol, signal, cs[idx + 1], idx)
        ELSE NoTrade

\* variant of BarEntry: a trade opened on candles[i] is checked against
\* candles[i] before the loop moves on
BarEntryThenExit ==
    /\ pc = "entry"
    /\ LET trade == EntryTrade(risk_manager, current_balance, active_trade,
                               Symbols[sym_idx], candles, i)
           reason == IF trade.status = "open"
                     THEN check_trade_exit(trade, candles[i + 1])
                     ELSE "none"
           closed == close_trade(trade, ExitPrice(trade, reason), reason)
       IN  IF trade.status = "open" /\ reason # "none"
           THEN /\ store' = Append(store, closed)
                /\ executed_trades' = Append(executed_trades, Len(store) + 1)
                /\ current_balance' = current_balance + closed.pnl
                /\ risk_manager' = ApplyOutcomes(risk_manager, OutcomeCalls(closed.pnl), now)
                /\ recorded' = recorded \o OutcomeCalls(closed.pnl)
                /\ journal' = log_trade(journal, closed)
                /\ trades' = Append(trades, Len(store) + 1)
                /\ UNCHANGED active_trade
           ELSE /\ IF trade.status = "open"
                   THEN /\ store' = Append(store, trade)
                        /\ active_trade' = Len(store) + 1
                        /\ executed_trades' = Append(executed_trades, Len(store) + 1)
                   ELSE UNCHANGED <<store, active_trade, executed_trades>>
                /\ UNCHANGED <<risk_manager, current_balance, trades, journal, recorded>>
    /\ i' = i + 1
    /\ pc' = "bar"
    /\ UNCHANGED <<now, sym_idx, candles, all_trades, result>>
    /\ UNCHANGED other_vars

BarEntry ==
    /\ pc = "entry"
    /\ LET trade == EntryTrade(risk_manager, current_balance, active_trade,
                               Symbols[sym_idx], candles, i)
       IN  IF trade.status = "open"
           THEN /\ store' = Append(store, trade)
                /\ active_trade' = Len(store) + 1
                /\ executed_trades' = Append(executed_trades, Len(store) + 1)
           ELSE UNCHANGED <<store, active_trade, executed_trades>>
    /\ i' = i + 1
    /\ pc' = "bar"
    /\ UNCHANGED <<now, risk_manager, current_balance, trades, journal, recorded,
                   sym_idx, candles, all_trades, result>>
    /\ UNCHANGED other_vars

\* the series is exhausted: backtest_symbol returns, backtest() extends all_trades
EndSymbol ==
    /\ pc = "bar"
    /\ all_trades' = all_trades \o executed_trades
    /\ sym_idx' = sym_idx + 1
    /\ pc' = "symbol"
    /\ candles' = <<>>
    /\ i' = 0
    /\ executed_trades' = <<>>
    /\ UNCHANGED <<now, risk_manager, current_balance, store, active_trade, trades,
                   journal, recorded, result>>
    /\ UNCHANGED other_vars

\* variant of Results: a position still in the slot is closed at its entry
\* price before the result is built
ResultsClosingOpen ==
    /\ pc = "symbol"
    /\ sym_idx > Len(Symbols)
    /\ LET closed == IF active_trade # None
                     THEN close_trade(store[active_trade],
                                      store[active_trade].entry_price, "end_of_data")
                     ELSE NoTrade
           st == IF active_trade # None
                 THEN [store EXCEPT ![active_trade] = closed]
                 ELSE store
           ts == IF active_trade # None THEN Append(trades, active_trade) ELSE trades
       IN  /\ store' = st
           /\ trades' = ts
           /\ journal' = IF active_trade # None THEN log_trade(journal, closed)
                         ELSE journal
           /\ active_trade' = None
           /\ result' = [trades |-> all_trades,
                         statistics |-> calculate_statistics(Deref(st, all_trades),
                                                             current_balance),
                         equity_curve |-> calculate_equity_curve(Deref(st, ts)),
                         drawdown_curve |-> calculate_drawdown(Deref(st, ts))]
    /\ pc' = "done"
    /\ UNCHANGED <<now, risk_manager, current_balance, recorded, sym_idx, candles, i,
                   executed_trades, all_trades>>
    /\ UNCHANGED other_vars

\* backtest(): the BacktestResult
Results ==
    /\ pc = "symbol"
    /\ sym_idx > Len(Symbols)
    /\ result' = [trades |-> all_trades,
                  statistics |-> calculate_statistics(Deref(store, all_trades),
                                                      current_balance),
                  equity_curve |-> calculate_equity_curve(Deref(store, trades)),
                  drawdown_curve |-> calculate_drawdown(Deref(store, trades))]
    /\ pc' = "done"
    /\ UNCHANGED <<now, risk_manager, current_balance, store, active_trade, trades,
                   journal, recorded, sym_idx, candles, i, executed_trades, all_trades>>
    /\ UNCHANGED other_vars

Next ==
    \/ ClockTick
    \/ SkipSymbol
    \/ StartSymbol
    \/ \E shape \in BarShapes : BarExit(shape)
    \/ BarEntry
    \/ EndSymbol
    \/ Results

Spec == Init /\ [][Next]_vars

\* ------------------------------------------------------------------------
\* EnhancedRiskManager driven by a caller (a trading loop that asks
\* can_open_trade before an entry and reports each closed trade)
\* ------------------------------------------------------------------------

\* engine state the risk manager's caller does not touch
engine_idle == <<current_balance, store, active_trade, trades, journal, sym_idx, pc,
                 candles, i, executed_trades, all_trades, result>>

\* callers' state the risk manager's caller does not touch
beside_checks == <<offer, gap, strategy, analysed, twin, asked, probe, enhanced, live>>

\* profit or loss of one closed trade: a 1 % loss, a 1 % and a 2 % win
Outcomes == {-InitialBalance \div 100, InitialBalance \div 100, InitialBalance \div 50}

\* the wall clock passes midnight between two calls
Midnight ==
    /\ checks = NoChecks
    /\ \E d \in StartDays : d <= now /\ now < d + MaxClock
    /\ now' = now + 1
    /\ UNCHANGED <<risk_manager, recorded, checks>>
    /\ UNCHANGED engine_idle
    /\ UNCHANGED beside_checks

\* the caller evaluates can_open_trade()
CanOpenTrade(session_active) ==
    /\ checks = NoChecks
    /\ LET r == can_open_trade(risk_manager, now, session_active)
       IN  /\ risk_manager' = r.rm
           /\ checks' = r.checks
    /\ UNCHANGED <<now, recorded>>
    /\ UNCHANGED engine_idle
    /\ UNCHANGED beside_checks

\* the caller has used the returned dict
ChecksUsed ==
    /\ checks # NoChecks
    /\ checks' = NoChecks
    /\ UNCHANGED <<now, risk_manager, recorded>>
    /\ UNCHANGED engine_idle
    /\ UNCHANGED beside_checks

\* the caller reports a closed trade: record_trade_outcome(pnl)
RecordOutcome(pnl) ==
    /\ checks = NoChecks
    /\ Len(recorded) < MaxOutcomes
    /\ risk_manager' = record_trade_outcome(risk_manager, pnl, now)
    /\ recorded' = Append(recorded, pnl)
    /\ UNCHANGED <<now, checks>>
    /\ UNCHANGED engine_idle
    /\ UNCHANGED beside_checks

RiskNext ==
    \/ Midnight
    \/ \E session_active \in BOOLEAN : CanOpenTrade(session_active)
    \/ ChecksUsed
    \/ \E pnl \in Outcomes : RecordOutcome(pnl)

SpecRisk == Init /\ [][RiskNext]_vars

\* ------------------------------------------------------------------------
\* Two freshly constructed engines replaying the same historical data: the
\* second one (twin) executes each statement right after the first, on the same
\* candles, while its own wall clock passes midnight at other moments
\* ------------------------------------------------------------------------

\* everything but the second engine
beside_twin == <<now, risk_manager, current_balance, store, active_trade, trades,
                 journal, recorded, sym_idx, pc, candles, i, executed_trades,
                 all_trades, result, checks, offer, gap, strategy, analysed, asked, probe, enhanced, live>>

\* the second engine has executed what the first has
InStep == twin.pc = pc /\ twin.sym_idx = sym_idx

FirstSkipSymbol == InStep /\ SkipSymbol

FirstStartSymbol == InStep /\ StartSymbol

FirstBarExit(shape) == InStep /\ BarExit(shape)

FirstBarEntry == InStep /\ BarEntry

FirstEndSymbol == InStep /\ EndSymbol

FirstResults == InStep /\ Results

\* datetime.now() of the second run passes midnight between two bars
TwinClockTick ==
    /\ InStep
    /\ pc = "bar"
    /\ \E d \in StartDays : d <= twin.now /\ twin.now < d + MaxClock
    /\ twin' = [twin EXCEPT !.now = twin.now + 1]
    /\ UNCHANGED beside_twin

\* backtest(): `if symbol not in historical_data: continue`
TwinSkipSymbol ==
    /\ twin.pc = "symbol" /\ pc = "symbol"
    /\ twin.sym_idx < sym_idx
    /\ twin' = [twin EXCEPT !.sym_idx = twin.sym_idx + 1]
    /\ UNCHANGED beside_twin

\* backtest() calls backtest_symbol
TwinStartSymbol ==
    /\ twin.pc = "symbol" /\ pc = "bar"
    /\ twin' = [twin EXCEPT !.i = StartIndex, !.executed_trades = <<>>, !.pc = "bar"]
    /\ UNCHANGED beside_twin

\* loop body, first half, on the candle the first engine has just read
TwinBarExit ==
    /\ twin.pc = "bar" /\ pc = "entry"
    /\ LET current_candle == candles[twin.i + 1]
           reason == IF twin.active_trade # None
                     THEN check_trade_exit(twin.store[twin.active_trade], current_candle)
                     ELSE "none"
       IN  IF reason # "none"
           THEN LET closed == close_trade(twin.store[twin.active_trade],
                                          ExitPrice(twin.store[twin.active_trade], reason),
                                          reason)
                IN  twin' = [twin EXCEPT
                        !.store = [twin.store EXCEPT ![twin.active_trade] = closed],
                        !.current_balance = twin.current_balance + closed.pnl,
                        !.risk_manager = ApplyOutcomes(twin.risk_manager,
                                                       OutcomeCalls(closed.pnl), twin.now),
                        !.trades = Append(twin.trades, twin.active_trade),
                        !.active_trade = None,
                        !.pc = "entry"]
           ELSE twin' = [twin EXCEPT !.pc = "entry"]
    /\ UNCHANGED beside_twin

\* loop body, second half
TwinBarEntry ==
    /\ twin.pc = "entry" /\ pc = "bar"
    /\ LET trade == EntryTrade(twin.risk_manager, twin.current_balance,
                               twin.active_trade, Symbols[twin.sym_idx], candles, twin.i)
       IN  IF trade.status = "open"
           THEN twin' = [twin EXCEPT
                    !.store = Append(twin.store, trade),
                    !.active_trade = Len(twin.store) + 1,
                    !.executed_trades = Append(twin.executed_trades, Len(twin.store) + 1),
                    !.i = twin.i + 1,
                    !.pc = "bar"]
           ELSE twin' = [twin EXCEPT !.i = twin.i + 1, !.pc = "bar"]
    /\ UNCHANGED beside_twin

\* backtest_symbol returns, backtest() extends all_trades
TwinEndSymbol ==
    /\ twin.pc = "bar" /\ pc = "symbol"
    /\ twin' = [twin EXCEPT !.all_trades = twin.all_trades \o twin.executed_trades,
                            !.sym_idx = twin.sym_idx + 1,
                            !.pc = "symbol",
                            !.i = 0,
                            !.executed_trades = <<>>]
    /\ UNCHANGED beside_twin

\* backtest(): the BacktestResult of the second run
TwinResults ==
    /\ twin.pc = "symbol" /\ pc = "done"
    /\ twin' = [twin EXCEPT
            !.result = [trades |-> twin.all_trades,
                        statistics |-> calculate_statistics(
                                           Deref(twin.store, twin.all_trades),
                                           twin.current_balance),
                        equity_curve |-> calculate_equity_curve(
                                             Deref(twin.store, twin.trades)),
                        drawdown_curve |-> calculate_drawdown(
                                               Deref(twin.store, twin.trades))],
            !.pc = "done"]
    /\ UNCHANGED beside_twin

TwinNext ==
    \/ FirstSkipSymbol
    \/ FirstStartSymbol
    \/ \E shape \in BarShapes : FirstBarExit(shape)
    \/ FirstBarEntry
    \/ FirstEndSymbol
    \/ FirstResults
    \/ TwinClockTick
    \/ TwinSkipSymbol
    \/ TwinStartSymbol
    \/ TwinBarExit
    \/ TwinBarEntry
    \/ TwinEndSymbol
    \/ TwinResults

SpecTwin == Init /\ [][TwinNext]_vars

\* ------------------------------------------------------------------------
\* The entry branch of backtest_symbol under an analyzer that may return any
\* signal (self.analyzer is a replaceable attribute)
\* ------------------------------------------------------------------------

\* callers' state the entry branch does not touch
beside_offer == <<checks, gap, strategy, analysed, twin, asked, probe, enhanced, live>>

\* prices a signal may carry: none, below, at and above the entry
OfferPrices == {0, 9950, 10000, 10100}

\* the TradeSignal objects an analyzer may hand back
OfferedSignals ==
    {[NoSignal EXCEPT !.valid = TRUE,
                      !.entry_price = 10000,
                      !.stop_loss = stop_loss,
                      !.target_price = target_price,
                      !.risk_reward_ratio = rr_ratio,
                      !.entry_zone_type = "fvg"] :
        stop_loss \in OfferPrices, target_price \in OfferPrices,
        rr_ratio \in {RatioScale, 2 * RatioScale}}

\* backtest_symbol lines 84-99 with `signal` as the analyzer's answer
SignalOffered(signal) ==
    /\ offer.n < MaxOffers
    /\ LET index == StartIndex + offer.n
           trade == IF SlotEmpty(active_trade) /\ signal.valid
                       /\ signal.risk_reward_ratio * 10 >= 15 * RatioScale
                    THEN open_trade(risk_manager, current_balance, Symbols[1], signal,
                                    Stamp(Flat, index), index)
                    ELSE NoTrade
       IN  /\ offer' = [n |-> offer.n + 1, signal |-> signal, trade |-> trade]
           /\ IF trade.status = "open"
              THEN /\ store' = Append(store, trade)
                   /\ active_trade' = Len(store) + 1
                   /\ executed_trades' = Append(executed_trades, Len(store) + 1)
              ELSE UNCHANGED <<store, active_trade, executed_trades>>
    /\ UNCHANGED <<now, risk_manager, current_balance, trades, journal, recorded,
                   sym_idx, pc, candles, i, all_trades, result>>
    /\ UNCHANGED beside_offer

\* backtest_symbol lines 79-81: a later bar reaches the stop or the target of
\* the open position (_check_trade_exit, _close_trade)
PositionClosed(reason) ==
    /\ active_trade # None
    /\ LET closed == close_trade(store[active_trade],
                                 ExitPrice(store[active_trade], reason), reason)
       IN  /\ store' = [store EXCEPT ![active_trade] = closed]
           /\ current_balance' = current_balance + closed.pnl
           /\ risk_manager' = ApplyOutcomes(risk_manager, OutcomeCalls(closed.pnl), now)
           /\ recorded' = recorded \o OutcomeCalls(closed.pnl)
           /\ journal' = log_trade(journal, closed)
           /\ trades' = Append(trades, active_trade)
           /\ active_trade' = None
    /\ UNCHANGED <<now, sym_idx, pc, candles, i, executed_trades, all_trades, result,
                   offer>>
    /\ UNCHANGED beside_offer

OfferNext ==
    \/ \E signal \in OfferedSignals : SignalOffered(signal)
    \/ \E reason \in {"stop_loss", "take_profit"} : PositionClosed(reason)

SpecOffer == Init /\ [][OfferNext]_vars

\* ------------------------------------------------------------------------
\* SMCAnalyzer.identify_fair_value_gap called on its own
\* ------------------------------------------------------------------------

\* callers' state the detector's caller does not touch
beside_gap == <<checks, offer, strategy, analysed, twin, asked, probe, enhanced, live>>

\* bars around 1.1000: a bar topping at 1.1000, the displacement bar that
\* leaves the imbalance, a bar bottoming at 1.1050
GapBars == {Candle(10990, 11000, 10980, 10995),
            Candle(11000, 11060, 10995, 11055),
            Candle(11055, 11070, 11050, 11060)}

\* the candle windows handed to the detector
RECURSIVE WindowsOfLength(_)
WindowsOfLength(n) ==
    IF n = 0 THEN {<<>>}
    ELSE {Append(w, c) : w \in WindowsOfLength(n - 1), c \in GapBars}

FvgDetect(window) ==
    /\ gap' = [window |-> window, zone |-> identify_fair_value_gap(window)]
    /\ UNCHANGED <<now, risk_manager, recorded>>
    /\ UNCHANGED engine_idle
    /\ UNCHANGED beside_gap

GapNext == \E n \in 3..MaxWindow : \E window \in WindowsOfLength(n) : FvgDetect(window)

SpecGap == Init /\ [][GapNext]_vars

\* ------------------------------------------------------------------------
\* One strategy instance called by a scanning loop with non-decreasing
\* last-candle timestamps
\* ------------------------------------------------------------------------

\* callers' state the strategy's caller does not touch
beside_strategy == <<checks, offer, gap, twin, asked, probe, enhanced, live>>

\* hours of the day at which the loop calls: two in session, one after it
CallHours == {9, 15, 23}

\* last-candle timestamps of the windows handed to analyze
CallStamps == {d * 24 + h : d \in 0..MaxDates, h \in CallHours}

Analyze(timestamp, window_len, setup, quiet) ==
    /\ timestamp >= analysed.timestamp
    /\ Len(analysed.signals) <= MaxSignalsPerDay * (MaxDates + 1)
    /\ LET r == strategy_analyze(strategy, timestamp, window_len, setup, quiet)
       IN  /\ strategy' = r.strategy
           /\ analysed' = [timestamp |-> timestamp, window_len |-> window_len,
                           setup |-> setup, quiet |-> quiet, signal |-> r.signal,
                           signals |-> IF r.signal
                                       THEN Append(analysed.signals, timestamp)
                                       ELSE analysed.signals]
    /\ UNCHANGED <<now, risk_manager, recorded>>
    /\ UNCHANGED engine_idle
    /\ UNCHANGED beside_strategy

StrategyNext ==
    \E timestamp \in CallStamps, window_len \in {99, 100}, setup \in BOOLEAN,
       quiet \in BOOLEAN :
        Analyze(timestamp, window_len, setup, quiet)

SpecStrategy == Init /\ [][StrategyNext]_vars

\* ------------------------------------------------------------------------
\* The calendar filter asked about the full hours of one week
\* ------------------------------------------------------------------------

\* callers' state the filter's caller does not touch
beside_filter == <<checks, offer, gap, strategy, analysed, twin, probe, enhanced, live>>

\* the full hours of a week that starts on a Monday
WeekStamps == {d * 24 + h : d \in 0..6, h \in 0..23}

\* AdvancedFilters.can_trade_now(timestamp)
CanTradeNow(timestamp) ==
    /\ asked' = [called |-> TRUE, timestamp |-> timestamp,
                 can_trade |-> can_trade_now(timestamp, quiet_at(timestamp))]
    /\ UNCHANGED <<now, risk_manager, recorded>>
    /\ UNCHANGED engine_idle
    /\ UNCHANGED beside_filter

FilterNext == \E timestamp \in WeekStamps : CanTradeNow(timestamp)

SpecFilter == Init /\ [][FilterNext]_vars

\* ------------------------------------------------------------------------
\* The SMCAnalyzer applied to windows of well-formed candles
\* ------------------------------------------------------------------------

\* callers' state the analyzer's caller does not touch
beside_probe == <<checks, offer, gap, strategy, analysed, twin, asked, enhanced, live>>

\* what may interrupt the quiet bars of a window
Motifs ==
    { <<>>,
      \* a quiet bar with a high far above the others
      <<Candle(10000, 10300, 9999, 10000)>>,
      \* a quiet bar with a low far below the others
      <<Candle(10000, 10001, 9700, 10000)>>,
      \* a bullish bar followed by a larger bearish bar: a bearish reversal
      <<Candle(10000, 10031, 9999, 10030), Candle(10030, 10031, 9989, 9990)>>,
      \* a bearish bar followed by a larger bullish bar: a bullish reversal
      <<Candle(10000, 10001, 9969, 9970), Candle(9970, 10011, 9969, 10010)>> }

\* the candles the most recent bars of a window are drawn from: the quiet bar,
\* the breaks that leave a gap, and breaks above and below the quiet bars that
\* leave none
TailBars ==
    {Flat, UpperBar, LowerBar,
     Candle(10000, 10110, 9999, 10100), Candle(10000, 10001, 9890, 9900)}

\* most recent bars of a window that are drawn freely
MaxTail == 1

\* number of bars ahead of the freely drawn ones: windows shorter than 10 and
\* 20 bars, windows shorter than the 15-bar structure, and full windows
HistoryLengths == {8, 12, 18, 28}

Quiet(n) == [k \in 1..n |-> Flat]

\* the freely drawn bars
Tails == UNION {[1..n -> TailBars] : n \in 1..MaxTail}

\* n bars: quiet bars, the motif, then `off` quiet bars
History(n, motif, off) == Quiet(n - off - Len(motif)) \o motif \o Quiet(off)

Stamped(cs) == [k \in 1..Len(cs) |-> Stamp(cs[k], k - 1)]

ProbeWindows ==
    UNION {{Stamped(History(n, motif, off) \o tail) :
                off \in 0..(n - Len(motif)), tail \in Tails} :
           n \in HistoryLengths, motif \in Motifs}

\* SMCAnalyzer.detect_break_of_structure(window) and
\* SMCAnalyzer.generate_entry_signal(window); both are functions of the window
\* alone, so one call per run is followed
AnalyzeWindow(window) ==
    /\ ~probe.called
    /\ probe' = [called |-> TRUE, window |-> window,
                 bos |-> detect_break_of_structure(window),
                 signal |-> generate_entry_signal(window)]
    /\ UNCHANGED <<now, risk_manager, recorded>>
    /\ UNCHANGED engine_idle
    /\ UNCHANGED beside_probe

ProbeNext == ~probe.called /\ \E window \in ProbeWindows : AnalyzeWindow(window)

SpecProbe == Init /\ [][ProbeNext]_vars

\* ------------------------------------------------------------------------
\* One EnhancedSMCStrategy instance called repeatedly
\* ------------------------------------------------------------------------

\* callers' state the strategy's caller does not touch
beside_enhanced == <<checks, offer, gap, strategy, analysed, twin, asked, probe, live>>

\* generate_signal / analyze calls followed on one instance
MaxCalls == 5

\* EnhancedSMCStrategy.generate_signal(candles_5m, candles_htf), also reached
\* through analyze
GenerateSignal(setup) ==
    /\ Len(enhanced.answers) < MaxCalls
    /\ LET r == enhanced_generate_signal(enhanced, setup)
       IN  enhanced' = [r.strategy EXCEPT !.answers = Append(@, r.signal)]
    /\ UNCHANGED <<now, risk_manager, recorded>>
    /\ UNCHANGED engine_idle
    /\ UNCHANGED beside_enhanced

EnhancedNext == \E setup \in BOOLEAN : GenerateSignal(setup)

SpecEnhanced == Init /\ [][EnhancedNext]_vars

\* ------------------------------------------------------------------------
\* The live bot: scan_and_trade driving the TradeExecutor
\* ------------------------------------------------------------------------

\* callers' state the bot does not touch
beside_live == <<checks, offer, gap, strategy, analysed, twin, asked, probe, enhanced>>

\* trades the executor is asked to open in one run
MaxOrders == 3

\* the broker has no quote for the symbol
NoQuote == 0

\* candles the broker returns for a symbol (lookback_periods = 50): quiet bars,
\* or quiet bars and a break above or below them on the last bar
LiveWindows ==
    {Stamped(Quiet(50)), Stamped(Quiet(49) \o <<UpperBar>>),
     Stamped(Quiet(49) \o <<LowerBar>>)}

\* bid prices the broker quotes: below the stops, at the long entry, above the
\* targets, or none
LivePrices == {NoQuote, 9900, 10085, 10400}

\* TradeExecutor.open_trade
executor_open_trade(bot, symbol, entry_price, stop_loss, target_price, quantity) ==
    LET n == bot.order_counter + 1
    IN  [bot EXCEPT !.order_counter = n,
                    !.active_trades =
                        Append(@, [trade_id |-> n, symbol |-> symbol,
                                   entry_price |-> entry_price,
                                   stop_loss |-> stop_loss,
                                   take_profit |-> target_price,
                                   quantity |-> quantity])]

\* TradeExecutor.close_trade (hit_stop_loss and hit_take_profit pass the
\* order's price and the reason)
executor_close_trade(bot, trade_id, exit_price, reason) ==
    LET Is(t) == t.trade_id = trade_id
        IsNot(t) == t.trade_id # trade_id
        found == SelectSeq(bot.active_trades, Is)
    IN  IF Len(found) = 0 THEN bot
        ELSE [bot EXCEPT !.active_trades = SelectSeq(@, IsNot),
                         !.closed_trades =
                             Append(@, [trade_id |-> trade_id,
                                        symbol |-> found[1].symbol,
                                        exit_reason |-> reason,
                                        pnl |-> (exit_price - found[1].entry_price)
                                                * found[1].quantity])]

\* ForexTradingBot.process_signal
process_signal(bot, symbol, signal, today, session_active, quoted) ==
    LET r == can_open_trade(bot.rm, today, session_active)
        b == [bot EXCEPT !.rm = r.rm]
        position_size == calculate_position_size(b.rm, signal.entry_price,
                                                 signal.stop_loss)
        validation == validate_trade(signal.entry_price, signal.stop_loss,
                                     signal.target_price)
    IN  IF ~AllChecks(r.checks) THEN b
        ELSE IF ~quoted THEN b
        ELSE IF signal.risk_reward_ratio < 2 * RatioScale THEN b
        ELSE IF position_size <= 0 THEN b
        ELSE IF ~AllChecks(validation) THEN b
        ELSE executor_open_trade(b, symbol, signal.entry_price, signal.stop_loss,
                                 signal.target_price, position_size)

\* the loop of check_active_trades over list(self.executor.active_trades.items())
RECURSIVE CheckTrades(_, _, _)
CheckTrades(bot, pending, bid) ==
    IF Len(pending) = 0 THEN bot
    ELSE LET trade == pending[1]
             current_price == bid[trade.symbol]
             after == IF current_price = NoQuote THEN bot
                      ELSE IF current_price <= trade.stop_loss
                      THEN executor_close_trade(bot, trade.trade_id, trade.stop_loss,
                                                "stop_loss")
                      ELSE IF current_price >= trade.take_profit
                      THEN executor_close_trade(bot, trade.trade_id,
                                                trade.take_profit, "take_profit")
                      ELSE bot
         IN  CheckTrades(after, Tail(pending), bid)

\* ForexTradingBot.check_active_trades
check_active_trades(bot, bid) == CheckTrades(bot, bot.active_trades, bid)

\* scan_and_trade, one pass of `for symbol in self.symbols`: analyze_symbol on
\* the broker's candles, then process_signal for a signal of strength >= 0.6
ScanSymbol(window, session_active, quoted) ==
    /\ live.cursor <= Len(Symbols)
    /\ live.order_counter < MaxOrders
    /\ LET symbol == Symbols[live.cursor]
           signal == analyze(window)
           after == IF signal.valid /\ signal.strength * 10 >= 6 * RatioScale
                    THEN process_signal(live, symbol, signal, now, session_active,
                                        quoted)
                    ELSE live
       IN  live' = [after EXCEPT !.cursor = live.cursor + 1]
    /\ UNCHANGED <<now, risk_manager, recorded>>
    /\ UNCHANGED engine_idle
    /\ UNCHANGED beside_live

\* scan_and_trade, after the symbols: check_active_trades, then the next scan
CheckActiveTrades(bid) ==
    /\ live.cursor = Len(Symbols) + 1
    /\ live' = [check_active_trades(live, bid) EXCEPT !.cursor = 1]
    /\ UNCHANGED <<now, risk_manager, recorded>>
    /\ UNCHANGED engine_idle
    /\ UNCHANGED beside_live

LiveNext ==
    \/ \E window \in LiveWindows, session_active \in BOOLEAN, quoted \in BOOLEAN :
           ScanSymbol(window, session_active, quoted)
    \/ \E bid \in [{Symbols[k] : k \in 1..Len(Symbols)} -> LivePrices] :
           CheckActiveTrades(bid)

SpecLive == Init /\ [][LiveNext]_vars

\* ------------------------------------------------------------------------
\* Properties
\* ------------------------------------------------------------------------

OpenPositions == {k \in 1..Len(store) : store[k].status = "open"}

ClosedPositions == {k \in 1..Len(store) : store[k].status = "closed"}

\* the candle the loop body is working on between its two halves
CurrentCandle == candles[i + 1]

\* C1: at most one position is open at any time, and it is the one in the
\* active-trade slot; no position is opened while the slot is occupied.
AtMostOneOpenPosition ==
    /\ Cardinality(OpenPositions) <= 1
    /\ \A k \in OpenPositions : active_trade = k

\* C1 witness: a valid signal arrives while a position is open
SignalWhilePositionOpen ==
    /\ pc = "entry"
    /\ active_trade # None
    /\ EntrySignal(candles, i).valid

\* C2: a bar that reaches both the stop and the target of the open position
\* closes it as stop_loss at the stop price with pnl = -quantity.
StopWinsTie ==
    [][(/\ pc = "bar"
        /\ pc' = "entry"
        /\ active_trade # None
        /\ candles'[Len(candles')].low <= store[active_trade].stop_loss
        /\ candles'[Len(candles')].high >= store[active_trade].take_profit)
       => (/\ store'[active_trade].status = "closed"
           /\ store'[active_trade].exit_reason = "stop_loss"
           /\ store'[active_trade].exit_price = store[active_trade].stop_loss
           /\ store'[active_trade].pnl = -store[active_trade].quantity
           /\ active_trade' = None)]_vars

\* C2 witness: the position opened on the previous bar was closed by a bar
\* that spans both its stop and its target
TieBarClosedPosition ==
    /\ pc = "entry"
    /\ \E k \in ClosedPositions :
         /\ store[k].symbol = Symbols[sym_idx]
         /\ store[k].index = i - 1
         /\ CurrentCandle.low <= store[k].stop_loss
         /\ CurrentCandle.high >= store[k].take_profit

\* C3: every trade closed as stop_loss has pnl = -quantity, and quantity is
\* the risk amount the risk manager held at entry (1 % of the balance at entry).
StopLossPnl ==
    \A k \in ClosedPositions :
        store[k].exit_reason = "stop_loss"
        => /\ store[k].pnl = -store[k].quantity
           /\ store[k].quantity = RiskAmount(store[k].account_balance_at_entry,
                                             RiskPerTrade)

\* C3 witness: a stop-loss exit of a trade entered after the balance had changed
StopLossAfterBalanceChange ==
    \E k \in ClosedPositions :
        /\ store[k].exit_reason = "stop_loss"
        /\ store[k].account_balance_at_entry # InitialBalance

EntryConditions ==
    LET signal == analyze(Window(candles, i))
    IN  /\ i >= StartIndex
        /\ active_trade = None
        /\ signal.valid
        /\ signal.risk_reward_ratio * 10 >= 15 * RatioScale
        /\ AllChecks(validate_trade(signal.entry_price, signal.stop_loss,
                                    signal.target_price))
        /\ calculate_position_size(risk_manager, signal.entry_price,
                                   signal.stop_loss) > 0

\* C5: a trade record is created, or the slot goes from empty to occupied,
\* only in the entry half of a bar on which every entry condition holds.
FlatToOpenOnlyIf ==
    [][(Len(store') # Len(store) \/ (active_trade = None /\ active_trade' # None))
       => (pc = "entry" /\ EntryConditions)]_vars

\* C5 witness: a bar whose signal failed validate_trade left the engine flat
\* with no record, and the next bar's signal opened the first position
RejectedThenOpened ==
    /\ pc = "bar"
    /\ i = StartIndex + 2
    /\ Len(store) = 1
    /\ active_trade = 1
    /\ store[1].index = i - 1
    /\ LET signal == analyze(Window(candles, i - 2))
       IN  /\ signal.valid
           /\ ~AllChecks(validate_trade(signal.entry_price, signal.stop_loss,
                                        signal.target_price))

\* C6: while a symbol is replayed, the position in the slot belongs to that
\* symbol (nothing is carried over from the replay of another symbol).
PerSymbolIndependence ==
    (pc \in {"bar", "entry"} /\ active_trade # None)
    => store[active_trade].symbol = Symbols[sym_idx]

\* no day or week rollover has happened since the counters were last reset
SameDay == now = risk_manager.daily_reset_time

SameWeek == IsoWeek(now) = IsoWeek(risk_manager.weekly_reset_time)

\* the recorded outcomes have used up the day's trade count or loss allowance,
\* or the week's loss allowance
RiskLimitHit ==
    \/ SameDay /\ risk_manager.daily_trades_count >= MaxTradesPerDay
    \/ SameDay /\ (-risk_manager.daily_pnl) * 1000
                    >= risk_manager.account_balance * MaxDailyLoss10
    \/ SameWeek /\ (-risk_manager.weekly_pnl) * 1000
                     >= risk_manager.account_balance * MaxWeeklyLoss10

\* C7: once a daily/weekly limit is hit and until the next rollover, no new
\* position is opened.
RiskLimitBlocksEntries ==
    [][RiskLimitHit => Len(store') = Len(store)]_vars

\* C8: record_trade_outcome is called once, with the trade's pnl, in the step
\* that closes a trade and in no other step; closed trades are never touched
\* again; the risk state changes by that call and in no other way.
RecordedOncePerClose ==
    [][/\ Len(recorded') - Len(recorded)
            = Cardinality({k \in 1..Len(store') : store'[k].status = "closed"})
              - Cardinality(ClosedPositions)
       /\ \A k \in ClosedPositions : store'[k] = store[k]
       /\ \/ /\ recorded' = recorded
             /\ risk_manager' = risk_manager
          \/ /\ active_trade # None
             /\ store[active_trade].status = "open"
             /\ store'[active_trade].status = "closed"
             /\ recorded' = Append(recorded, store'[active_trade].pnl)
             /\ risk_manager' = record_trade_outcome(risk_manager,
                                                     store'[active_trade].pnl, now)]_vars

\* C8 witness: two trades have been closed and recorded, a third is open
TwoRecordedOneOpen ==
    /\ Len(recorded) = 2
    /\ Cardinality(ClosedPositions) = 2
    /\ Cardinality(OpenPositions) = 1

\* C9: a position is closed only by a bar that crosses the level its exit
\* reason names, on the side the position's direction puts that level.
ExitCrossesNamedLevel ==
    [][\A k \in OpenPositions :
          store'[k].status = "closed"
          => LET bar == candles'[Len(candles')]
                 t == store'[k]
             IN  IF t.stop_loss < t.entry_price
                 THEN /\ t.exit_reason = "stop_loss" => bar.low <= t.stop_loss
                      /\ t.exit_reason = "take_profit" => bar.high >= t.take_profit
                 ELSE /\ t.exit_reason = "stop_loss" => bar.high >= t.stop_loss
                      /\ t.exit_reason = "take_profit" => bar.low <= t.take_profit]_vars

\* the equity points from position k on follow from adding the pnl of the
\* trades in rem, taken in some order of non-decreasing entry time
RECURSIVE DerivableFrom(_, _)
DerivableFrom(rem, k) ==
    IF rem = {} THEN TRUE
    ELSE \E t \in rem :
           /\ \A u \in rem : store[t].entry_time <= store[u].entry_time
           /\ result.equity_curve[k + 1] = result.equity_curve[k] + store[t].pnl
           /\ DerivableFrom(rem \ {t}, k + 1)

\* C10: the returned equity curve starts at the initial balance, has one point
\* per closed trade after it, and each point adds the pnl of the next closed
\* trade in entry-time order.
EquityDerivable ==
    pc = "done"
    => /\ Len(result.equity_curve) = Cardinality(ClosedPositions) + 1
       /\ result.equity_curve[1] = InitialBalance
       /\ DerivableFrom(ClosedPositions, 1)

\* C10 witness: a result whose trades were closed in an order that is not
\* their entry-time order, with different pnl
EquityOfReorderedTrades ==
    /\ pc = "done"
    /\ \E a, b \in 1..Len(trades) :
         /\ a < b
         /\ store[trades[a]].entry_time > store[trades[b]].entry_time
         /\ store[trades[a]].pnl # store[trades[b]].pnl

\* the highest equity point among the first k
RunningPeak(equity, k) == SeqMax(SubSeq(equity, 1, k))

\* C11: the drawdown curve has one value per equity point, the first value is
\* 0, every value is >= 0 and equals (peak - equity[k]) / peak * 100 with peak
\* the highest equity point up to k (0 when that peak is not positive).
DrawdownIsPeakToTrough ==
    pc = "done"
    => LET eq == result.equity_curve
           dd == result.drawdown_curve
       IN  /\ Len(dd) = Len(eq)
           /\ dd[1] = 0
           /\ \A k \in 1..Len(eq) :
                LET pk == RunningPeak(eq, k)
                IN  /\ dd[k] >= 0
                    /\ dd[k] = IF pk > 0
                               THEN ((pk - eq[k]) * 10000) \div (pk \div 100)
                               ELSE 0

\* C11 witness: a result whose equity made a new peak above the initial
\* balance and then fell below it
DrawdownAfterNewPeak ==
    /\ pc = "done"
    /\ \E k \in 1..Len(result.equity_curve) :
         /\ RunningPeak(result.equity_curve, k) > result.equity_curve[1]
         /\ result.drawdown_curve[k] > 0

\* the trades handed to _calculate_statistics that are closed
ClosedInResult == {k \in 1..Len(all_trades) : store[all_trades[k]].status = "closed"}

\* C12: winning_trades + losing_trades = total_trades, total_trades counts
\* the closed trades only, and no closed trade has a pnl of exactly 0.
WinnersAndLosersPartition ==
    pc = "done"
    => /\ result.statistics.winning_trades + result.statistics.losing_trades
            = result.statistics.total_trades
       /\ result.statistics.total_trades = Cardinality(ClosedInResult)
       /\ \A k \in ClosedPositions : store[k].pnl # 0

\* C12 witness: a result with a winner, a loser and a trade still open
WinnerLoserAndOpenTrade ==
    /\ pc = "done"
    /\ result.statistics.winning_trades >= 1
    /\ result.statistics.losing_trades >= 1
    /\ \E k \in 1..Len(all_trades) : store[all_trades[k]].status = "open"

\* C18: for every closed trade the recorded risk_reward_ratio is
\* |take_profit - entry| / |entry - stop_loss| (up to the rounding of the
\* stored ratio) and it is at least 1.5.
RecordedRatioIsRewardOverRisk ==
    \A k \in ClosedPositions :
        LET t == store[k]
            risk == Abs(t.entry_price - t.stop_loss)
            reward == Abs(t.take_profit - t.entry_price)
        IN  /\ risk > 0
            /\ Abs(t.risk_reward_ratio * risk - reward * RatioScale) < risk
            /\ t.risk_reward_ratio * 10 >= 15 * RatioScale

\* C18 witness: a long and a short trade have both been closed
LongAndShortClosed ==
    \E a, b \in ClosedPositions :
        /\ store[a].stop_loss < store[a].entry_price
        /\ store[b].stop_loss > store[b].entry_price

\* the calendar week a day ordinal lies in, years told apart
WeekOf(day) == day \div 7

\* C15: when can_open_trade is evaluated on a day other than the day of the
\* last daily reset, daily P&L and daily trade count are zero when the checks
\* are computed; when it is evaluated in a week other than the week of the last
\* weekly reset, weekly P&L is zero when the checks are computed.
ResetsBeforeChecks ==
    [][(checks = NoChecks /\ checks'.called)
       => (/\ now # risk_manager.daily_reset_time
              => (/\ risk_manager'.daily_pnl = 0
                  /\ risk_manager'.daily_trades_count = 0)
           /\ WeekOf(now) # WeekOf(risk_manager.weekly_reset_time)
              => risk_manager'.weekly_pnl = 0)]_vars

\* C16: daily_limit_ok is false exactly when the daily P&L is a net loss of at
\* least max_daily_loss percent of the balance, weekly_limit_ok likewise with
\* max_weekly_loss; a profit never turns either check false.
LossLimitsOnly ==
    checks.called
    => /\ checks.daily_limit_ok
            <=> ~((-risk_manager.daily_pnl) * 1000
                    >= risk_manager.account_balance * MaxDailyLoss10)
       /\ checks.weekly_limit_ok
            <=> ~((-risk_manager.weekly_pnl) * 1000
                    >= risk_manager.account_balance * MaxWeeklyLoss10)

\* entry and stop prices tried on calculate_position_size
ProbePrices == {9950, 10000, 10050}

DegenerateSignalNeverOpens ==
    [][(/\ offer'.n = offer.n + 1
        /\ offer'.signal.stop_loss = offer'.signal.entry_price)
       => (/\ offer'.trade = NoTrade
           /\ UNCHANGED <<active_trade, current_balance, store, trades,
                          executed_trades, journal, risk_manager>>)]_vars

\* C14 witness: with the slot empty after an earlier trade was closed, a
\* signal with stop = entry, a target and a claimed ratio of 2 was handed in
DegenerateSignalOfferedWhileFlat ==
    /\ offer.n >= 1
    /\ offer.signal.stop_loss = offer.signal.entry_price
    /\ offer.signal.target_price > offer.signal.entry_price
    /\ offer.signal.risk_reward_ratio = 2 * RatioScale
    /\ active_trade = None
    /\ Len(trades) >= 1

\* C19: on a window of at least 3 bars whose last three bars form a bullish
\* imbalance (bar[0].high < bar[2].low, gap at least 0.1 % of the current
\* price) the FVG detector returns the gap bottom = bar[0].high, top = bar[2].low.
FvgFoundOnLastThreeBars ==
    gap.window # <<>>
    => LET n == Len(gap.window)
           bar0 == gap.window[n - 2]
           bar2 == gap.window[n]
       IN  (/\ bar0.high < bar2.low
            /\ (bar2.low - bar0.high) * 1000 >= bar2.close)
           => gap.zone = [kind |-> "fvg", low |-> bar0.high, high |-> bar2.low]

\* the signals returned for windows whose last candle lies on date d
SignalsOn(d) == {k \in 1..Len(analysed.signals) : UtcDate(analysed.signals[k]) = d}

\* C20: with non-decreasing last-candle timestamps at most 2 analyze calls per
\* UTC date return a signal, and the counter is the number of signals returned
\* for the current date (it restarts at 0 when the date changes).
DailySignalCap ==
    /\ \A d \in 0..MaxDates : Cardinality(SignalsOn(d)) <= 2
    /\ strategy.current_date # NoDate
       => strategy.trades_today = Cardinality(SignalsOn(strategy.current_date))

\* C20 witness: the first date had its two signals, and on the next date, after
\* two more, a call that passed every other gate got no signal
ThirdSignalRefused ==
    /\ Cardinality(SignalsOn(0)) = 2
    /\ Cardinality(SignalsOn(UtcDate(analysed.timestamp))) = 2
    /\ UtcDate(analysed.timestamp) > 0
    /\ analysed.timestamp >= analysed.signals[Len(analysed.signals)]
    /\ analysed.window_len >= 100
    /\ analysed.setup
    /\ ~analysed.signal
    /\ can_trade_now(analysed.timestamp, analysed.quiet)
    /\ strategy.trades_today = 2
    /\ Len(analysed.signals) = 4

\* C13: two fresh engines replaying the same candle series with the same
\* configuration return identical trades and identical statistics, whatever
\* their wall clocks do meanwhile.
ReplayIsIdempotent ==
    (pc = "done" /\ twin.pc = "done")
    => /\ Deref(twin.store, twin.result.trades) = Deref(store, result.trades)
       /\ twin.result.statistics = result.statistics
       /\ twin.result.equity_curve = result.equity_curve
       /\ twin.result.drawdown_curve = result.drawdown_curve

\* C13 witness: both runs are finished with at least two closed trades, and
\* their clocks and the clock-dependent counters of their risk managers differ
ReplayedUnderDifferentClocks ==
    /\ pc = "done"
    /\ twin.pc = "done"
    /\ result.statistics.total_trades >= 2
    /\ twin.now # now
    /\ twin.risk_manager.daily_trades_count # risk_manager.daily_trades_count
    /\ twin.risk_manager.daily_pnl # risk_manager.daily_pnl

\* C21: can_trade_now answers can_trade = false for every timestamp on a
\* Saturday or a Sunday (UTC) and for every Friday timestamp at or after 20:00
WeekendAndFridayEveningExcluded ==
    (/\ asked.called
     /\ \/ Weekday(asked.timestamp) \in {5, 6}
        \/ Weekday(asked.timestamp) = 4 /\ UtcHour(asked.timestamp) >= 20)
    => ~asked.can_trade

\* bars of window w the structure is read from: the last 15 without the last 2
StructureBars(w) == {k \in 1..Len(w) : k > Len(w) - 15 /\ k <= Len(w) - 2}

HighestHigh(w) ==
    CHOOSE h \in {w[k].high : k \in StructureBars(w)} :
        \A k \in StructureBars(w) : w[k].high <= h

LowestLow(w) ==
    CHOOSE l \in {w[k].low : k \in StructureBars(w)} :
        \A k \in StructureBars(w) : w[k].low >= l

\* C22: detect_break_of_structure compares the latest close with the highest
\* high and lowest low of the last 15 bars without the most recent 2: upward
\* break iff close > max_high * 1.0007, otherwise downward break iff
\* close < min_low * 0.9993, otherwise nothing; the strength lies in [0, 1]; a
\* window of fewer than 10 bars gives no pattern
BosAsSpecified ==
    probe.called =>
        LET w == probe.window
            close == w[Len(w)].close
        IN  IF Len(w) < 10 THEN probe.bos = NoBOS
            ELSE LET up == close * 10000 > HighestHigh(w) * 10007
                     down == close * 10000 < LowestLow(w) * 9993
                 IN  /\ probe.bos.structure_type =
                            IF up THEN "higher_high"
                            ELSE IF down THEN "lower_low" ELSE "none"
                     /\ probe.bos.strength \in 0..RatioScale
                     /\ probe.bos.structure_type # "none" => probe.bos.price = close

\* an upward break declared although the bar before the last one reaches above
\* the latest close, in a window of at least 15 bars
BreakOverExcludedBar ==
    /\ probe.called
    /\ Len(probe.window) >= 15
    /\ probe.bos.structure_type = "higher_high"
    /\ probe.bos.strength > 0
    /\ probe.window[Len(probe.window) - 1].high > probe.bos.price

\* C30: every signal generate_entry_signal emits on well-formed candles is
\* correctly oriented with a positive risk distance (long after an upward
\* break: stop < entry < target; short after a downward break: target < entry
\* < stop), whichever zone was selected, and its risk/reward ratio is 2
SignalsOriented ==
    probe.called /\ probe.signal.valid =>
        LET s == probe.signal
        IN  /\ s.entry_zone_type \in {"fvg", "order_block", "discount_zone"}
            /\ s.bos.structure_type \in {"higher_high", "lower_low"}
            /\ s.bos.structure_type = "higher_high" =>
                   s.stop_loss < s.entry_price /\ s.entry_price < s.target_price
            /\ s.bos.structure_type = "lower_low" =>
                   s.target_price < s.entry_price /\ s.entry_price < s.stop_loss
            /\ s.risk_reward_ratio = 2 * RatioScale

\* a short signal whose stop comes from a discount zone
ShortFromDiscountZone ==
    /\ probe.called
    /\ probe.signal.valid
    /\ probe.signal.entry_zone_type = "discount_zone"
    /\ probe.signal.bos.structure_type = "lower_low"
    /\ probe.signal.stop_loss > probe.signal.entry_price

\* C24: in every trade record quantity is the dollar risk captured at entry,
\* the risk_amount field equals it, and reward_amount = risk_amount * rr
\* (risk_amount and reward_amount carry the price scale of 10000 on top of the
\* money scale of quantity)
RiskAmountFieldIsQuantity ==
    \A k \in 1..Len(store) :
        /\ store[k].risk_amount = store[k].quantity * 10000
        /\ store[k].reward_amount * RatioScale =
               store[k].risk_amount * store[k].risk_reward_ratio

\* C26: in every reachable state the engine's current_balance equals its risk
\* manager's account_balance, and both equal the initial balance plus the sum
\* of pnl over the trades closed so far (the engine's trades list)
BalanceIsInitialPlusClosedPnl ==
    /\ current_balance = risk_manager.account_balance
    /\ current_balance = InitialBalance + SeqSum(Pnls(Deref(store, trades)))

\* the trades list holds a winner and a loser and the balance has moved
BalanceAfterWinAndLoss ==
    /\ \E a, b \in 1..Len(trades) : store[trades[a]].pnl > 0 /\ store[trades[b]].pnl < 0
    /\ current_balance # InitialBalance

\* C27: the result of backtest() on a fresh engine is consistent:
\* final_balance = initial balance + total_pnl = last point of the equity
\* curve, and the equity curve has total_trades + 1 points
ResultIsConsistent ==
    pc = "done" =>
        LET s == result.statistics
            e == result.equity_curve
        IN  /\ s.final_balance = InitialBalance + s.total_pnl
            /\ Len(e) = s.total_trades + 1
            /\ e[Len(e)] = s.final_balance

\* a finished run with a winner and a loser and a changed balance
ResultAfterWinAndLoss ==
    /\ pc = "done"
    /\ result.statistics.winning_trades >= 1
    /\ result.statistics.losing_trades >= 1
    /\ result.statistics.total_pnl # 0

\* C28: within one bar the exit of the open position is checked before an
\* entry is looked for: a position is never closed by the bar it was opened
\* on, a position is still open when the step that opened it ends, and a
\* position may be opened on the bar that closed the previous one
ExitCheckedBeforeEntry ==
    [][/\ \A k \in OpenPositions :
              store'[k].status = "closed" =>
                  /\ pc = "bar"
                  /\ ~(store[k].symbol = Symbols[sym_idx] /\ store[k].index = i)
       /\ Len(store') > Len(store) =>
              /\ pc = "entry"
              /\ store'[Len(store')].status = "open"
              /\ store'[Len(store')].index = i
              /\ active_trade' = Len(store')]_vars

\* a position was closed on a bar, the next position was opened on that same
\* bar, and the bar reaches below the new position's stop
ReopenedOnClosingBar ==
    /\ pc = "bar"
    /\ active_trade # None
    /\ store[active_trade].symbol = Symbols[sym_idx]
    /\ store[active_trade].index = i - 1
    /\ candles[i].low <= store[active_trade].stop_loss
    /\ \E a \in ClosedPositions :
           /\ store[a].symbol = store[active_trade].symbol
           /\ store[a].index + 1 = store[active_trade].index

\* the trades of a list of store positions that are closed
ClosedOf(refs) ==
    LET IsClosedRef(k) == store[k].status = "closed"
    IN  Deref(store, SelectSeq(refs, IsClosedRef))

\* C29: a position still open when the last candle has been processed is never
\* closed: from the end of the last series on it keeps status open and no exit
\* reason, it is listed in the result's trades, and balance, risk state,
\* journal, statistics (closed trades only) and equity curve are what the
\* closed trades alone make them
OpenPositionLeftAlone ==
    [][(pc' \in {"symbol", "done"} /\ sym_idx' > Len(Symbols)) =>
          \A k \in OpenPositions :
              /\ store'[k] = store[k]
              /\ store'[k].exit_reason = "none"
              /\ current_balance' = current_balance
              /\ risk_manager' = risk_manager
              /\ recorded' = recorded
              /\ journal' = journal
              /\ \A r \in 1..Len(journal') : journal'[r].id # store[k].id
              /\ pc' = "done" =>
                     /\ \E r \in 1..Len(result'.trades) : result'.trades[r] = k
                     /\ result'.statistics =
                            calculate_statistics(ClosedOf(all_trades), current_balance)
                     /\ result'.statistics.total_trades < Len(result'.trades)
                     /\ Len(result'.equity_curve) = Len(ClosedOf(all_trades)) + 1
                     /\ result'.equity_curve[Len(result'.equity_curve)] =
                            current_balance]_vars

\* a finished run that closed a trade and left a later position open
RunEndedWithOpenPosition ==
    /\ pc = "done"
    /\ active_trade # None
    /\ store[active_trade].status = "open"
    /\ store[active_trade].exit_reason = "none"
    /\ Len(trades) >= 1
    /\ result.statistics.total_trades = Len(trades)
    /\ current_balance # InitialBalance

\* signals emitted by the EnhancedSMCStrategy instance so far
SignalsEmitted == Cardinality({k \in 1..Len(enhanced.answers) : enhanced.answers[k]})

\* C25: EnhancedSMCStrategy enforces its daily cap: over any sequence of
\* generate_signal / analyze calls on one instance at most max_trades_per_day
\* (2) signals are emitted, every emitted signal counts toward trades_today
EnhancedDailyCap ==
    /\ SignalsEmitted <= enhanced.max_trades_per_day
    /\ enhanced.trades_today = SignalsEmitted

\* C23: in the live bot TradeExecutor.active_trades never holds two open
\* trades for the same symbol, after any number of scan iterations
OnePositionPerSymbol ==
    \A a, b \in 1..Len(live.active_trades) :
        a # b => live.active_trades[a].symbol # live.active_trades[b].symbol

====
